---------------------------- MODULE Spec2Model ----------------------------
(***************************************************************************)
(* A model of the Masumi-Ziggurat task bridge                              *)
(* (src/integrations/masumi_ziggurat_bridge.py) and of the unified payment *)
(* service (src/integrations/unified_payment_service.py).                  *)
(*                                                                         *)
(* The bridge is an asyncio object: callers interleave only at the awaits  *)
(* of process_explainable_task, so every action below is the code between  *)
(* two awaits.  The marketplace client, the explanation client and the     *)
(* transaction service are remote collaborators: what they answer is drawn *)
(* from the answers their interface allows (return, return a rejection,    *)
(* raise).                                                                 *)
(*                                                                         *)
(* Around them: the explanation client and the engine, the agent with the  *)
(* quota gate of its client, the reward pool, the chain client             *)
(* (src/integrations/icp_client.py) and the payment service's settlement   *)
(* loop, each with a specification of its own.                             *)
(***************************************************************************)
EXTENDS Integers, Sequences, FiniteSets, TLC

\* ------------------------------------------------------------------ bounds

\* invocations of process_explainable_task over the whole run
MaxInvocations == 2
\* payment objects ever created
MaxPayments == 3
\* rewards paid out while the bridge runs
MaxPayouts == 2
\* last value of the clock read by datetime.utcnow()
MaxClock == 1
\* explain_prediction coroutines in flight together
MaxRequests == 3
\* requests per hour of the agent's tier (the community tier has 100)
rate_limit_per_hour == 2
\* last tick of the quota gate's clock
MaxQuotaClock == 2
\* num_tasks of the largest reward pool
MaxPoolTasks == 4
\* items of one batch_store
MaxBatch == 2
\* store_data and retrieve_data calls over the whole run
MaxIcpCalls == 3
\* _auto_settlement_loop tasks ever created
MaxLoopTasks == 3
\* automatic settlement runs over the whole run
MaxSettleRuns == 2

\* ------------------------------------------------------------ constant data

Callers == {1, 2}
Tasks == {"task-001"}
agent_id == "test-agent"
Users == {agent_id, "test-user"}

\* quality scores are counted in units of 1/3000, which makes every term of
\* _calculate_quality_score an integer (confidence is given in percent)
ScoreUnit == 3000
\* min_quality_threshold = 0.7
min_quality_threshold == 2100

NoExplanation == [confidence |-> 0, blockchain_verified |-> FALSE,
                  feature_importance |-> 0, cross_chain_proofs |-> 0,
                  processing_time_ms |-> 0, present |-> FALSE]

\* what explain_decision / explain_with_counterfactuals may return: the
\* explanation of the test fixture (0.88, verified, 3 features, 750 ms), a
\* poor one (0.40, unverified, no features) and one whose score is exactly
\* the threshold (0.75, verified, 5 features, slow)
Explanations ==
  { [confidence |-> 88, blockchain_verified |-> TRUE, feature_importance |-> 3,
     cross_chain_proofs |-> 0, processing_time_ms |-> 750, present |-> TRUE],
    [confidence |-> 40, blockchain_verified |-> FALSE, feature_importance |-> 0,
     cross_chain_proofs |-> 0, processing_time_ms |-> 750, present |-> TRUE],
    [confidence |-> 75, blockchain_verified |-> TRUE, feature_importance |-> 5,
     cross_chain_proofs |-> 0, processing_time_ms |-> 6000, present |-> TRUE] }

\* what claim_task may answer: {"success": True}, or a rejection that names
\* the holder of the claim
ClaimResponses ==
  { [success |-> TRUE, claimed_by |-> "none"],
    [success |-> FALSE, claimed_by |-> "self"],
    [success |-> FALSE, claimed_by |-> "other"] }

Min(a, b) == IF a < b THEN a ELSE b

\* ---------------------------------------------------------------- variables

VARIABLES
  \* --- one frame of process_explainable_task per caller
  pc,                  \* the await the caller is suspended at, or "idle"
  task_id,             \* the task_id argument
  explanation,         \* local explanation
  quality_score,       \* local quality_score
  submit_calls,        \* submit_task_completion calls carrying the result
  failed_step,         \* the step whose exception the except block handles
  \* --- the bridge object
  outcome,             \* how the invocation that ended last ended
  explanation_cache,   \* self._explanation_cache
  \* --- what the marketplace and the explanation client have been asked
  task_status,         \* the task's state as the bridge's calls reported it
  explain_calls,       \* model (explain) calls made for the task
  claim_reward_calls,  \* claim_reward calls made for the task
  reward_records,      \* the rewards claim_reward returned, in order
  invocations,         \* invocations started for the task
  overlapped,          \* two invocations of the task were in flight together
  \* --- the payment service object
  payment_objects,     \* every UnifiedPayment object created, by identity
  payments,            \* self._payments: payment_id -> payment object
  pending_settlements, \* self._pending_settlements: payment objects, in order
  awaiting_transaction,\* payments suspended at transaction_service.process_payment
  enable_cross_chain,  \* self.enable_cross_chain
  now,                 \* the last value datetime.utcnow() returned
  \* --- ICPOpenXAIClient.explain and submit_custom_explanation
  xai_pc,              \* "idle", or "post" while session.post is awaited
  produced,            \* the explanation built last, and whether its proof
                       \* was anchored on the primary chain
  \* --- MasumiZigguratBridge._cross_chain_verify
  ccv_index,           \* position in `chains` of the awaited verify_proof, 0 = no call
  verification_proofs, \* keys of the local dict verification_proofs
  ccv_failed,          \* chains whose verify_proof raised or returned False
  ccv_returned,        \* the call has returned verification_proofs
  \* --- BlockchainVerificationBridge
  verification_result, \* the result verify_ai_explanation returned last
  \* --- ZigguratIntelligenceEngine
  engine_pc,           \* per request: the await explain_prediction is at
  engine_key,          \* per request: its (model, method, input)
  \* --- ZigguratBasicAgent.run and the quota gate of its client
  agent_pc,            \* per run: the await run is suspended at, or "idle"
  run_result,          \* per run: what run returned last
  accepted_at,         \* per clock tick: the requests the gate accepted
  quota_now,           \* the gate's clock
  \* --- ExplainableRewardsSystem reward pool
  reward_pool,         \* the pool dict
  pool_result,         \* what distribute_pool_reward answered last
  \* --- ICPClient
  data_list,           \* the argument of the batch_store in progress
  store_pc,            \* per item: where its store_data is
  store_result,        \* per item: what its store_data returned
  store_attempts,      \* per item: calls of _store_data_on_blockchain made
  completion_order,    \* the items in the order their store_data returned
  batch_results,       \* what batch_store returned last
  request_count,       \* self.request_count
  error_count,         \* self.error_count
  retrieved,           \* the last retrieve_data: payload stored, data returned
  \* --- UnifiedPaymentService.start, stop and _auto_settlement_loop
  settlement_task,     \* self._settlement_task: a task, or 0 for None
  loop_state,          \* per task: where that _auto_settlement_loop is
  stop_pc,             \* per caller: "idle", or "awaiting" inside stop
  stop_awaited,        \* per caller: the task its stop awaits
  stopped_clean,       \* a stop has completed and no start was called since
  settle_runs          \* automatic process_batch_settlement runs so far

bridgeVars == <<pc, task_id, explanation, quality_score, submit_calls, failed_step,
                outcome, explanation_cache, task_status, explain_calls, claim_reward_calls, reward_records, invocations, overlapped>>

payVars == <<payment_objects, payments, pending_settlements,
             awaiting_transaction, enable_cross_chain, now>>

xaiVars == <<xai_pc, produced>>

ccvVars == <<ccv_index, verification_proofs, ccv_failed, ccv_returned>>

engineVars == <<engine_pc, engine_key>>

\* the explanation side: client, cross-chain verification, engine
intelVars == <<xaiVars, ccvVars, verification_result, engineVars>>

quotaVars == <<agent_pc, run_result, accepted_at, quota_now>>

poolVars == <<reward_pool, pool_result>>

icpVars == <<data_list, store_pc, store_result, store_attempts, completion_order,
             batch_results, request_count, error_count, retrieved>>

loopVars == <<settlement_task, loop_state, stop_pc, stop_awaited, stopped_clean,
              settle_runs>>

\* the services around the bridge: quota, reward pool, chain client, settlement loop
serviceVars == <<quotaVars, poolVars, icpVars, loopVars>>

vars == <<bridgeVars, payVars, intelVars, serviceVars>>

NoOutcome == [kind |-> "none", task_id |-> "", error |-> "none",
              claimed_by |-> "none", quality_score |-> 0, reward |-> FALSE]

\* ------------------------------------------------------------- pure helpers

\* MasumiZigguratBridge._calculate_quality_score, in units of 1/ScoreUnit
calculate_quality_score(e) ==
  LET confidence == e.confidence * 12                      \* confidence * 0.4
      verified == IF e.blockchain_verified THEN 600 ELSE 0 \* + 0.2
      coverage == IF e.feature_importance > 0
                    THEN Min(e.feature_importance, 5) * 120 \* min(n/5,1) * 0.2
                    ELSE 0
      cross == IF e.cross_chain_proofs > 0
                 THEN Min(e.cross_chain_proofs, 3) * 100    \* min(n/3,1) * 0.1
                 ELSE 0
      speed == IF e.processing_time_ms < 1000 THEN 300
               ELSE IF e.processing_time_ms < 5000 THEN 150 ELSE 0
  IN  Min(confidence + verified + coverage + cross + speed, ScoreUnit)

\* the comparison of line 303 made strict
RewardEligibleStrict(score) == score > min_quality_threshold

\* line 303: if quality_score >= self.min_quality_threshold
RewardEligible(score) == score >= min_quality_threshold

RECURSIVE SumOver(_, _)
SumOver(f, S) ==
  IF S = {} THEN 0
  ELSE LET x == CHOOSE y \in S : TRUE IN f[x] + SumOver(f, S \ {x})

TotalInvocations == SumOver(invocations, Tasks)

\* ------------------------------------------------------------------- Init

BridgeInit ==
  /\ pc = [c \in Callers |-> "idle"]
  /\ task_id = [c \in Callers |-> "task-001"]
  /\ explanation = [c \in Callers |-> NoExplanation]
  /\ quality_score = [c \in Callers |-> 0]
  /\ submit_calls = [c \in Callers |-> 0]
  /\ failed_step = [c \in Callers |-> "none"]
  /\ outcome = NoOutcome
  /\ explanation_cache = [t \in Tasks |-> NoExplanation]
  /\ task_status = [t \in Tasks |-> "Available"]
  /\ explain_calls = [t \in Tasks |-> 0]
  /\ claim_reward_calls = [t \in Tasks |-> 0]
  /\ reward_records = <<>>
  /\ invocations = [t \in Tasks |-> 0]
  /\ overlapped = [t \in Tasks |-> FALSE]

\* --------------------------------------- process_explainable_task (bridge)

\* the coroutine ends: its frame (arguments and locals) is gone
LeaveFrame(c) ==
  /\ pc' = [pc EXCEPT ![c] = "idle"]
  /\ task_id' = [task_id EXCEPT ![c] = "task-001"]
  /\ explanation' = [explanation EXCEPT ![c] = NoExplanation]
  /\ quality_score' = [quality_score EXCEPT ![c] = 0]
  /\ submit_calls' = [submit_calls EXCEPT ![c] = 0]
  /\ failed_step' = [failed_step EXCEPT ![c] = "none"]

\* how an invocation that returns hands over its ExplainableTaskResult
\* (lines 302-320): reward is the claimed reward or None, and the
\* explanation is cached under the task id
ReturnResult(c, has_reward) ==
  /\ outcome' =
        [kind |-> "result", task_id |-> task_id[c], error |-> "none",
         claimed_by |-> "none", quality_score |-> quality_score[c],
         reward |-> has_reward]
  /\ explanation_cache' = [explanation_cache EXCEPT ![task_id[c]] = explanation[c]]
  /\ LeaveFrame(c)

\* lines 246-249: the call starts and awaits masumi_client.claim_task(task_id).
\* Callers are interchangeable, so a new call takes the lowest free frame
Invoke(c, t) ==
  /\ pc[c] = "idle"
  /\ \A d \in Callers : d < c => pc[d] # "idle"
  /\ TotalInvocations < MaxInvocations
  /\ pc' = [pc EXCEPT ![c] = "claim_task"]
  /\ task_id' = [task_id EXCEPT ![c] = t]
  /\ invocations' = [invocations EXCEPT ![t] = @ + 1]
  /\ overlapped' = [overlapped EXCEPT ![t] =
        @ \/ (\E d \in Callers \ {c} : pc[d] # "idle" /\ task_id[d] = t)]
  /\ UNCHANGED <<explanation, quality_score, submit_calls, failed_step,
                 outcome, explanation_cache, task_status, explain_calls,
                 claim_reward_calls, reward_records>>
  /\ UNCHANGED <<payVars, intelVars, serviceVars>>

\* lines 249-266: claim_task answers.  A rejection raises RuntimeError before
\* the try block, whoever holds the claim; a success enters the try block and
\* awaits the explanation client
ClaimTaskReturns(c, resp) ==
  /\ pc[c] = "claim_task"
  /\ IF resp.success
       THEN /\ pc' = [pc EXCEPT ![c] = "explain"]
            /\ task_status' = [task_status EXCEPT ![task_id[c]] =
                  IF @ = "Available" THEN "Claimed" ELSE @]
            /\ explain_calls' = [explain_calls EXCEPT ![task_id[c]] = @ + 1]
            /\ UNCHANGED <<outcome, task_id, explanation,
                           quality_score, submit_calls,
                           failed_step>>
       ELSE /\ LeaveFrame(c)
            /\ outcome' =
                  [NoOutcome EXCEPT !.kind = "raised", !.task_id = task_id[c],
                                    !.error = "RuntimeError",
                                    !.claimed_by = resp.claimed_by]
            /\ UNCHANGED <<task_status, explain_calls>>
  /\ UNCHANGED <<explanation_cache, claim_reward_calls,
                 reward_records, invocations, overlapped>>
  /\ UNCHANGED <<payVars, intelVars, serviceVars>>

\* lines 262-299: the explanation arrives, the score is computed and
\* submit_task_completion is awaited.  The optional _cross_chain_verify of
\* lines 268-273 sits between the two: it swallows every chain's failure
\* (lines 443-452), so it never raises, and neither the score nor the flow
\* below reads its proofs; it is not part of the frame modelled here (the
\* method itself is modelled further down, as CrossChainVerify)
ExplainReturns(c, e) ==
  /\ pc[c] = "explain"
  /\ explanation' = [explanation EXCEPT ![c] = e]
  /\ quality_score' = [quality_score EXCEPT ![c] = calculate_quality_score(e)]
  /\ submit_calls' = [submit_calls EXCEPT ![c] = @ + 1]
  /\ pc' = [pc EXCEPT ![c] = "submit"]
  /\ UNCHANGED <<task_id, failed_step, outcome,
                 explanation_cache, task_status, explain_calls,
                 claim_reward_calls, reward_records,
                 invocations, overlapped>>
  /\ UNCHANGED <<payVars, intelVars, serviceVars>>

\* the except block (lines 322-328): whatever was raised inside the try
\* block, an error completion with quality 0.0 is sent to the marketplace
EnterExcept(c, step) ==
  /\ pc' = [pc EXCEPT ![c] = "report"]
  /\ failed_step' = [failed_step EXCEPT ![c] = step]

\* lines 256-266 raise (a network error or a timeout of the model call)
ExplainRaises(c) ==
  /\ pc[c] = "explain"
  /\ EnterExcept(c, "explain")
  /\ UNCHANGED <<task_id, explanation, quality_score, submit_calls, outcome, explanation_cache,
                 task_status, explain_calls, claim_reward_calls,
                 reward_records, invocations, overlapped>>
  /\ UNCHANGED <<payVars, intelVars, serviceVars>>

\* lines 295-320: submit_task_completion returns; completion_result is never
\* read, so a {"success": False} answer continues like a success.  Above the
\* threshold claim_reward is awaited, below it the result is returned
SubmitReturns(c, accepted) ==
  /\ pc[c] = "submit"
  /\ task_status' = [task_status EXCEPT ![task_id[c]] =
        IF accepted THEN "Submitted" ELSE @]
  /\ IF RewardEligible(quality_score[c])
       THEN /\ pc' = [pc EXCEPT ![c] = "claim_reward"]
            /\ claim_reward_calls' = [claim_reward_calls EXCEPT ![task_id[c]] = @ + 1]
            /\ UNCHANGED <<outcome, explanation_cache, task_id,
                           explanation, quality_score, submit_calls, failed_step>>
       ELSE /\ ReturnResult(c, FALSE)
            /\ UNCHANGED claim_reward_calls
  /\ UNCHANGED <<explain_calls, reward_records, invocations,
                 overlapped>>
  /\ UNCHANGED <<payVars, intelVars, serviceVars>>

\* line 295 raises
SubmitRaises(c) ==
  /\ pc[c] = "submit"
  /\ EnterExcept(c, "submit")
  /\ UNCHANGED <<task_id, explanation, quality_score, submit_calls, outcome, explanation_cache,
                 task_status, explain_calls, claim_reward_calls,
                 reward_records, invocations, overlapped>>
  /\ UNCHANGED <<payVars, intelVars, serviceVars>>

\* lines 304-320: claim_reward returns a MasumiTaskReward (with or without a
\* transaction hash); the result is built, the explanation cached
ClaimRewardReturns(c, has_tx) ==
  /\ pc[c] = "claim_reward"
  /\ reward_records' = Append(reward_records,
        [task_id |-> task_id[c], agent_id |-> agent_id,
         transaction_hash |-> has_tx])
  /\ task_status' = [task_status EXCEPT ![task_id[c]] = "Rewarded"]
  /\ ReturnResult(c, TRUE)
  /\ UNCHANGED <<explain_calls, claim_reward_calls,
                 invocations, overlapped>>
  /\ UNCHANGED <<payVars, intelVars, serviceVars>>

\* line 304 raises
ClaimRewardRaises(c) ==
  /\ pc[c] = "claim_reward"
  /\ EnterExcept(c, "claim_reward")
  /\ UNCHANGED <<task_id, explanation, quality_score, submit_calls, outcome, explanation_cache,
                 task_status, explain_calls, claim_reward_calls,
                 reward_records, invocations, overlapped>>
  /\ UNCHANGED <<payVars, intelVars, serviceVars>>

\* lines 324-329: the error completion is answered ("accepted", "rejected")
\* or its call raises; in every case an exception leaves the invocation
ReportCompletes(c, answer) ==
  /\ pc[c] = "report"
  /\ task_status' = [task_status EXCEPT ![task_id[c]] =
        IF answer = "accepted" THEN "Failed" ELSE @]
  /\ outcome' =
        [kind |-> "raised", task_id |-> task_id[c], error |-> failed_step[c],
         claimed_by |-> "none", quality_score |-> quality_score[c],
         reward |-> FALSE]
  /\ LeaveFrame(c)
  /\ UNCHANGED <<explanation_cache, explain_calls, claim_reward_calls,
                 reward_records, invocations, overlapped>>
  /\ UNCHANGED <<payVars, intelVars, serviceVars>>

\* ------------------------------------------------- UnifiedPaymentService

\* amounts are counted in units of 1/AmountScale of a coin
AmountScale == 10000

PayInit ==
  /\ payment_objects = <<>>
  /\ payments = <<>>
  /\ pending_settlements = <<>>
  /\ awaiting_transaction = {}
  /\ enable_cross_chain \in BOOLEAN
  /\ now = 0

\* _generate_payment_id: the first 16 hex digits of SHA-256 of
\* "{prefix}-{user_id}-{timestamp}"; the digest is taken to be injective on
\* the few strings hashed here, so the id is the hashed triple itself
generate_payment_id(prefix, user_id, timestamp) == <<prefix, user_id, timestamp>>

\* _get_blockchain_for_token
get_blockchain_for_token(token) ==
  CASE token = "MASUMI" -> "cardano"
    [] token = "ICP" -> "icp"
    [] token = "TON" -> "ton"
    [] token = "ADA" -> "cardano"
    [] token = "NURU" -> "cardano"
    [] OTHER -> "unknown"

\* self._exchange_rates, in hundredths
exchange_rates(from_currency, to_currency) ==
  CASE from_currency = "MASUMI" /\ to_currency = "ICP" -> 2
    [] from_currency = "MASUMI" /\ to_currency = "TON" -> 5
    [] from_currency = "MASUMI" /\ to_currency = "ADA" -> 25
    [] from_currency = "ICP" /\ to_currency = "MASUMI" -> 5000
    [] from_currency = "ICP" /\ to_currency = "TON" -> 250
    [] from_currency = "ICP" /\ to_currency = "ADA" -> 1250
    [] from_currency = "TON" /\ to_currency = "MASUMI" -> 2000
    [] from_currency = "TON" /\ to_currency = "ICP" -> 40
    [] from_currency = "TON" /\ to_currency = "ADA" -> 500
    [] from_currency = "ADA" /\ to_currency = "MASUMI" -> 400
    [] from_currency = "ADA" /\ to_currency = "ICP" -> 8
    [] from_currency = "ADA" /\ to_currency = "TON" -> 20
    [] OTHER -> 100

\* a lookup that always falls back to the default rate 1.0
get_exchange_rate_default(from_currency, to_currency) == 100

\* _get_exchange_rate, in hundredths
get_exchange_rate(from_currency, to_currency) ==
  IF from_currency = to_currency THEN 100
  ELSE exchange_rates(from_currency, to_currency)

\* cost_per_million_cycles (lines 147-154), in hundredths of a coin
cost_per_million_cycles(payment_method) ==
  CASE payment_method = "ICP" -> 10
    [] payment_method = "TON" -> 25
    [] payment_method = "CARDANO" -> 125
    [] OTHER -> 100

\* self._payments[payment.payment_id] = payment
StorePayment(table, pid, o) ==
  [id \in (DOMAIN table) \cup {pid} |-> IF id = pid THEN o ELSE table[id]]

\* the clock never runs backwards, and two reads may return the same value
ClockReads == now .. MaxClock

\* lines 146-185: the payment object is built (its id from the clock, the
\* cycle count in its metadata) and the call awaits
\* transaction_service.process_payment
ProcessAiServicePayment(user_id, cycles_used, payment_method, ts) ==
  /\ Len(payment_objects) < MaxPayments
  /\ ts \in ClockReads
  /\ payment_objects' = Append(payment_objects,
        [payment_id |-> generate_payment_id("ai", user_id, ts),
         payment_type |-> "ai_service",
         amount |-> (cycles_used * cost_per_million_cycles(payment_method))
                       \div ((1000000 * 100) \div AmountScale),
         currency |-> payment_method,
         sender_id |-> user_id,
         recipient_id |-> "ziggurat_treasury",
         blockchain_network |-> payment_method,
         transaction_hash |-> "none",
         status |-> "pending",
         task_id |-> "none",
         cycles_used |-> cycles_used])
  /\ awaiting_transaction' = awaiting_transaction \cup {Len(payment_objects) + 1}
  /\ now' = ts
  /\ UNCHANGED <<payments, pending_settlements, enable_cross_chain>>
  /\ UNCHANGED <<bridgeVars, intelVars, serviceVars>>

\* lines 187-195: process_payment answers; the payment is completed or failed
\* and only then stored under its id
TransactionReturns(o, success) ==
  /\ o \in awaiting_transaction
  /\ payment_objects' = [payment_objects EXCEPT ![o] =
        IF success
          THEN [@ EXCEPT !.status = "completed", !.transaction_hash = "tx"]
          ELSE [@ EXCEPT !.status = "failed"]]
  /\ payments' = StorePayment(payments, payment_objects[o].payment_id, o)
  /\ awaiting_transaction' = awaiting_transaction \ {o}
  /\ UNCHANGED <<pending_settlements, enable_cross_chain, now>>
  /\ UNCHANGED <<bridgeVars, intelVars, serviceVars>>

\* line 180 raises: the exception leaves the call and the payment is not stored
TransactionRaises(o) ==
  /\ o \in awaiting_transaction
  /\ awaiting_transaction' = awaiting_transaction \ {o}
  /\ UNCHANGED <<payment_objects, payments, pending_settlements,
                 enable_cross_chain, now>>
  /\ UNCHANGED <<bridgeVars, intelVars, serviceVars>>

\* line 237: if self.enable_cross_chain and payment.status == "pending"
QueuesReward(status) == enable_cross_chain /\ status = "pending"

\* distribute_task_reward (lines 212-240); it has no await
DistributeTaskReward(task_reward, ts) ==
  /\ Len(payment_objects) < MaxPayments
  /\ ts \in ClockReads
  /\ LET o == Len(payment_objects) + 1
         status == IF task_reward.transaction_hash THEN "completed" ELSE "pending"
         pid == generate_payment_id("reward", task_reward.agent_id, ts)
     IN  /\ payment_objects' = Append(payment_objects,
               [payment_id |-> pid,
                payment_type |-> "task_reward",
                amount |-> 25 * AmountScale,
                currency |-> "MASUMI",
                sender_id |-> "masumi_treasury",
                recipient_id |-> task_reward.agent_id,
                blockchain_network |-> get_blockchain_for_token("MASUMI"),
                transaction_hash |->
                   IF task_reward.transaction_hash THEN "tx" ELSE "none",
                status |-> status,
                task_id |-> task_reward.task_id])
         /\ payments' = StorePayment(payments, pid, o)
         /\ pending_settlements' =
               IF QueuesReward(status) THEN Append(pending_settlements, o)
               ELSE pending_settlements
  /\ now' = ts
  /\ UNCHANGED <<awaiting_transaction, enable_cross_chain>>
  /\ UNCHANGED <<bridgeVars, intelVars, serviceVars>>

\* process_cross_chain_transfer (lines 263-319); it has no await.  The two
\* ids are made by two reads of the clock
ProcessCrossChainTransfer(from_currency, to_currency, amount, user_id, ts1, ts2) ==
  /\ Len(payment_objects) + 2 <= MaxPayments
  /\ ts1 \in ClockReads
  /\ ts2 \in ts1 .. MaxClock
  /\ LET o == Len(payment_objects) + 1
         exchange_rate == get_exchange_rate(from_currency, to_currency)
         source_payment ==
           [payment_id |-> generate_payment_id("cross_out", user_id, ts1),
            payment_type |-> "cross_chain",
            amount |-> amount,
            currency |-> from_currency,
            sender_id |-> user_id,
            recipient_id |-> "bridge_escrow",
            blockchain_network |-> get_blockchain_for_token(from_currency),
            transaction_hash |-> "none",
            status |-> "pending",
            task_id |-> "none"]
         dest_payment ==
           [payment_id |-> generate_payment_id("cross_in", user_id, ts2),
            payment_type |-> "cross_chain",
            amount |-> (amount * exchange_rate) \div 100,
            currency |-> to_currency,
            sender_id |-> "bridge_escrow",
            recipient_id |-> user_id,
            blockchain_network |-> get_blockchain_for_token(to_currency),
            transaction_hash |-> "none",
            status |-> "pending",
            task_id |-> "none"]
     IN  /\ payment_objects' = payment_objects \o <<source_payment, dest_payment>>
         /\ payments' = StorePayment(
               StorePayment(payments, source_payment.payment_id, o),
               dest_payment.payment_id, o + 1)
         /\ pending_settlements' = pending_settlements \o <<o, o + 1>>
  /\ now' = ts2
  /\ UNCHANGED <<awaiting_transaction, enable_cross_chain>>
  /\ UNCHANGED <<bridgeVars, intelVars, serviceVars>>

\* a settlement that walks the whole ledger instead of the queue
SettledByBatchWholeLedger == DOMAIN payment_objects

\* the payments process_batch_settlement settles: those of the queue
\* (lines 441-445)
SettledByBatch == {pending_settlements[i] : i \in DOMAIN pending_settlements}

\* what process_batch_settlement does to a queue that is not empty
\* (lines 440-488): every queued payment is completed with a batch
\* transaction hash, then the completed ones leave the queue
BatchSettlement(ts) ==
  /\ ts \in ClockReads
  /\ payment_objects' =
        [o \in DOMAIN payment_objects |->
           IF o \in SettledByBatch
             THEN [payment_objects[o] EXCEPT !.status = "completed",
                                             !.transaction_hash = "batch"]
             ELSE payment_objects[o]]
  /\ pending_settlements' =
        SelectSeq(pending_settlements,
                  LAMBDA o : payment_objects'[o].status # "completed")
  /\ now' = ts
  /\ UNCHANGED <<payments, awaiting_transaction, enable_cross_chain>>

\* process_batch_settlement (lines 426-488) called on a queue that is not
\* empty.  (On an empty queue it returns at once.)
ProcessBatchSettlement(ts) ==
  /\ pending_settlements # <<>>
  /\ BatchSettlement(ts)
  /\ UNCHANGED <<bridgeVars, intelVars, serviceVars>>

\* the currencies get_balance_summary reports (lines 364-369)
Currencies == {"MASUMI", "ICP", "TON", "ADA"}

\* the loop of get_balance_summary (lines 371-380) over the payments S: a
\* completed payment in the currency adds its amount when the user received
\* it and takes it off when the user sent it
RECURSIVE SignedSum(_, _, _, _)
SignedSum(S, objects, user_id, currency) ==
  IF S = {} THEN 0
  ELSE LET o == CHOOSE x \in S : TRUE
           payment == objects[o]
           counts == payment.status = "completed" /\ payment.currency = currency
           credit == IF counts /\ payment.recipient_id = user_id
                       THEN payment.amount ELSE 0
           debit == IF counts /\ payment.sender_id = user_id
                      THEN payment.amount ELSE 0
       IN  credit - debit + SignedSum(S \ {o}, objects, user_id, currency)

\* get_balance_summary(user_id)[currency] on the ledger `table`, whose values
\* are payments of `objects`
BalanceOf(table, objects, user_id, currency) ==
  SignedSum({table[id] : id \in DOMAIN table}, objects, user_id, currency)

\* get_balance_summary (lines 354-382)
get_balance_summary(user_id) ==
  [currency \in Currencies |->
     BalanceOf(payments, payment_objects, user_id, currency)]

\* --------------------------------------------------- ICPOpenXAIClient.explain

\* a confidence of 1.0; confidences are counted in ten-thousandths
ConfidenceOne == 10000

\* the confidences a response or a caller may carry: -0.0001, 0.85, 1.0001
Confidences == {0 - 1, 8500, ConfidenceOne + 1}

\* what the satellite may answer to POST /explain: a status, and in the body
\* of a 200 the fields _parse_explanation reads with a default; confidence
\* is <<>> when the body has none
Responses ==
  [status : {200}, blockchain_verified : {"absent", "true", "false"},
   proof_hash : BOOLEAN, confidence : {<<>>} \cup {<<c>> : c \in Confidences}]
    \cup {[status |-> 500, blockchain_verified |-> "absent", proof_hash |-> FALSE,
           confidence |-> <<>>]}

NoProduced ==
  [source |-> "none", blockchain_verified |-> FALSE, proof_hash |-> FALSE,
   verification_chain |-> FALSE, confidence |-> 0, anchored |-> FALSE]

\* _parse_explanation (lines 204-221): blockchain_verified defaults to False,
\* proof_hash to None, and verification_chain is always ICP.  proof_hash and
\* verification_chain stand for "is present".  confidence is the response's,
\* 0.0 when it has none (line 208)
parse_explanation(data) ==
  [source |-> "parsed",
   blockchain_verified |-> data.blockchain_verified = "true",
   proof_hash |-> data.proof_hash,
   verification_chain |-> TRUE,
   confidence |-> IF data.confidence = <<>> THEN 0 ELSE data.confidence[1]]

\* _mock_explanation (lines 242-256)
mock_explanation ==
  [source |-> "mock", blockchain_verified |-> TRUE, proof_hash |-> TRUE,
   verification_chain |-> TRUE, confidence |-> 8500]

\* the ZigguratExplanation of submit_custom_explanation (lines 403-413), the
\* bridge being configured with a primary chain (lines 117-122)
custom_explanation(verify_on_chain, confidence) ==
  [source |-> "custom", blockchain_verified |-> verify_on_chain,
   proof_hash |-> verify_on_chain, verification_chain |-> verify_on_chain,
   confidence |-> confidence]

\* an explanation leaves its operation; `anchored` records whether a proof of
\* it was stored on the primary chain
Produce(e, anchored) ==
  produced' = [source |-> e.source, blockchain_verified |-> e.blockchain_verified,
               proof_hash |-> e.proof_hash,
               verification_chain |-> e.verification_chain,
               confidence |-> e.confidence,
               anchored |-> anchored]

\* explain, lines 108-122: the payload is built and session.post is awaited
XaiExplain ==
  /\ xai_pc = "idle"
  /\ xai_pc' = "post"
  /\ UNCHANGED produced
  /\ UNCHANGED <<serviceVars, bridgeVars, payVars, ccvVars, verification_result, engineVars>>

\* explain, lines 123-134: the satellite answers.  A 200 is parsed: the
\* satellite did the anchoring and reports it in blockchain_verified.  Any
\* other status raises inside the try block, and the except block returns
\* the mock explanation
XaiResponse(data) ==
  /\ xai_pc = "post"
  /\ xai_pc' = "idle"
  /\ IF data.status = 200
       THEN Produce(parse_explanation(data), data.blockchain_verified = "true")
       ELSE Produce(mock_explanation, FALSE)
  /\ UNCHANGED <<serviceVars, bridgeVars, payVars, ccvVars, verification_result, engineVars>>

\* explain, lines 131-134: the request itself raises (no connection, timeout)
\* and the except block returns the mock explanation
XaiRequestRaises ==
  /\ xai_pc = "post"
  /\ xai_pc' = "idle"
  /\ Produce(mock_explanation, FALSE)
  /\ UNCHANGED <<serviceVars, bridgeVars, payVars, ccvVars, verification_result, engineVars>>

\* submit_custom_explanation (lines 372-432): it has no await and calls no
\* chain; the flag is the caller's verify_on_chain argument and the
\* confidence is the caller's, as it came (line 405)
SubmitCustomExplanation(verify_on_chain, confidence) ==
  /\ Produce(custom_explanation(verify_on_chain, confidence), FALSE)
  /\ UNCHANGED xai_pc
  /\ UNCHANGED <<serviceVars, bridgeVars, payVars, ccvVars, verification_result, engineVars>>

\* ------------------------------------ MasumiZigguratBridge._cross_chain_verify

\* the local list `chains` (lines 436-440)
chains == <<"icp", "cardano", "ethereum">>

\* lines 434-444: the call starts and awaits verify_proof for the first chain
CrossChainVerify ==
  /\ ccv_index = 0
  /\ ccv_index' = 1
  /\ verification_proofs' = {}
  /\ ccv_failed' = {}
  /\ ccv_returned' = FALSE
  /\ UNCHANGED <<serviceVars, bridgeVars, payVars, xaiVars, verification_result, engineVars>>

\* lines 443-454: verify_proof answers for the chain awaited.  Only a true
\* answer writes an entry; a false answer and an exception write nothing.
\* After the last chain the dict is returned
VerifyProofAnswers(answer) ==
  /\ ccv_index \in DOMAIN chains
  /\ verification_proofs' =
        IF answer = "verified" THEN verification_proofs \cup {chains[ccv_index]}
        ELSE verification_proofs
  /\ ccv_failed' =
        IF answer = "verified" THEN ccv_failed
        ELSE ccv_failed \cup {chains[ccv_index]}
  /\ ccv_index' = IF ccv_index = Len(chains) THEN 0 ELSE ccv_index + 1
  /\ ccv_returned' = (ccv_index = Len(chains))
  /\ UNCHANGED <<serviceVars, bridgeVars, payVars, xaiVars, verification_result, engineVars>>

\* ------------------------------------------- BlockchainVerificationBridge

\* the chain proofs are anchored on first, and the chains a caller may add
primary_chain == "icp"
SecondaryChains == {"cardano", "ethereum", "ton"}

\* consensus_threshold = 0.66, in hundredths
consensus_threshold == 66

NoVerification ==
  [requested |-> {}, verified |-> {}, errors |-> {}, verified_count |-> 0,
   total_count |-> 0, consensus_achieved |-> FALSE, reason |-> "none"]

\* the primary chain alone stands for no verified chain at all
verified_count_without_primary(primary_ok, verified_secondaries) ==
  Cardinality(verified_secondaries)

\* the chains that count as verified: the anchored primary and the
\* secondaries that stored and verified the proof
verified_count_of(primary_ok, verified_secondaries) ==
  (IF primary_ok THEN 1 ELSE 0) + Cardinality(verified_secondaries)

\* the consensus rule: verified_count / total_count >= threshold
consensus_rule(verified_count, total_count) ==
  verified_count * 100 >= consensus_threshold * total_count

\* verify_ai_explanation(explanation_data, explanation_hash, chains) for the
\* primary chain and the secondaries asked for.  A primary that fails to
\* anchor ends the operation; otherwise every secondary is tried and is
\* reported as verified or with an error
VerifyAiExplanation(secondaries, primary_ok, verified_secondaries) ==
  /\ verified_secondaries \subseteq secondaries
  /\ LET requested == {primary_chain} \cup secondaries
         total_count == Cardinality(requested)
     IN  verification_result' =
           IF primary_ok
             THEN LET verified_count ==
                        verified_count_of(primary_ok, verified_secondaries)
                  IN  [requested |-> requested,
                       verified |-> {primary_chain} \cup verified_secondaries,
                       errors |-> secondaries \ verified_secondaries,
                       verified_count |-> verified_count,
                       total_count |-> total_count,
                       consensus_achieved |->
                          consensus_rule(verified_count, total_count),
                       reason |-> "none"]
             ELSE [requested |-> requested, verified |-> {},
                   errors |-> {primary_chain}, verified_count |-> 0,
                   total_count |-> total_count, consensus_achieved |-> FALSE,
                   reason |-> "PrimaryAnchorFailed"]
  /\ UNCHANGED <<serviceVars, bridgeVars, payVars, xaiVars, ccvVars, engineVars>>

\* ---------------------------------------------- ZigguratIntelligenceEngine

\* explain_prediction coroutines that may be in flight together
Requests == 1 .. MaxRequests

\* (model_id, method, input) of the requests made: the loan request of the
\* demo and its transaction-risk request
CacheKeys == {"loan_approval_v2", "fraud_detection_v3"}

\* explain_prediction, lines 62-76: the call starts and awaits
\* _call_openxai_inference; self.explanation_cache is not consulted
StartExplain(r, key) ==
  /\ engine_pc[r] = "idle"
  /\ engine_pc' = [engine_pc EXCEPT ![r] = "inference"]
  /\ engine_key' = [engine_key EXCEPT ![r] = key]

ExplainPrediction(r, key) ==
  /\ StartExplain(r, key)
  /\ UNCHANGED <<serviceVars, bridgeVars, payVars, xaiVars, ccvVars, verification_result>>

\* batch_explain (lines 245-252) for two requests: gather schedules both
\* coroutines, and each runs up to its first await before either inference
\* returns
BatchExplain(r1, key1, r2, key2) ==
  /\ r1 < r2
  /\ engine_pc[r1] = "idle" /\ engine_pc[r2] = "idle"
  /\ engine_pc' = [engine_pc EXCEPT ![r1] = "inference", ![r2] = "inference"]
  /\ engine_key' = [engine_key EXCEPT ![r1] = key1, ![r2] = key2]
  /\ UNCHANGED <<serviceVars, bridgeVars, payVars, xaiVars, ccvVars, verification_result>>

\* lines 76-83: the inference returns and _generate_explanation is awaited
InferenceReturns(r) ==
  /\ engine_pc[r] = "inference"
  /\ engine_pc' = [engine_pc EXCEPT ![r] = "explanation"]
  /\ UNCHANGED engine_key
  /\ UNCHANGED <<serviceVars, bridgeVars, payVars, xaiVars, ccvVars, verification_result>>

\* lines 79-86: the explanation is generated and _store_on_icp is awaited
GenerateExplanationReturns(r) ==
  /\ engine_pc[r] = "explanation"
  /\ engine_pc' = [engine_pc EXCEPT ![r] = "store"]
  /\ UNCHANGED engine_key
  /\ UNCHANGED <<serviceVars, bridgeVars, payVars, xaiVars, ccvVars, verification_result>>

\* lines 86-96: the hash is stored and the ExplanationResult returned; the
\* coroutine and its request are gone
StoreOnIcpReturns(r) ==
  /\ engine_pc[r] = "store"
  /\ engine_pc' = [engine_pc EXCEPT ![r] = "idle"]
  /\ engine_key' = [engine_key EXCEPT ![r] = "loan_approval_v2"]
  /\ UNCHANGED <<serviceVars, bridgeVars, payVars, xaiVars, ccvVars, verification_result>>

IntelInit ==
  /\ xai_pc = "idle"
  /\ produced = NoProduced
  /\ ccv_index = 0
  /\ verification_proofs = {}
  /\ ccv_failed = {}
  /\ ccv_returned = FALSE
  /\ verification_result = NoVerification
  /\ engine_pc = [r \in Requests |-> "idle"]
  /\ engine_key = [r \in Requests |-> "loan_approval_v2"]

\* ------------------------------------------------------------ quota gate
\* ZigguratBasicAgent.run (src/agents/ziggurat_basic_agent.py, lines 72-166)
\* asks its client for the rate status and then for the explanation; the
\* client decides the quota.  The client (ZigguratCommunity) is outside the
\* sources, so its gate follows the specification, section 4.8: a sliding
\* window of 3600 s per agent, decisions serialized per agent.

Runs == Callers

\* the window of 3600 s, in clock ticks of 1800 s
WindowTicks == 2

NoRunResult == [status |-> "none", upgrade_info |-> FALSE]

RECURSIVE AcceptedBetween(_, _)
\* the requests accepted at the ticks from..to
AcceptedBetween(from, to) ==
  IF from > to THEN 0
  ELSE (IF from \in DOMAIN accepted_at THEN accepted_at[from] ELSE 0)
       + AcceptedBetween(from + 1, to)

\* the requests accepted in the window that ends at tick t
accepted_in_window(t) == AcceptedBetween(t - WindowTicks + 1, t)

quota_allows_inclusive == accepted_in_window(quota_now) <= rate_limit_per_hour
\* the gate's decision: there is a unit left in the window that ends now
quota_allows == accepted_in_window(quota_now) < rate_limit_per_hour

QuotaInit ==
  /\ agent_pc = [r \in Runs |-> "idle"]
  /\ run_result = [r \in Runs |-> NoRunResult]
  /\ accepted_at = [t \in 0 .. MaxQuotaClock |-> 0]
  /\ quota_now = 0

\* run is called (lines 72-102): up to the await of get_rate_limit_status
AgentRun(r) ==
  /\ agent_pc[r] = "idle"
  /\ agent_pc' = [agent_pc EXCEPT ![r] = "status"]
  /\ run_result' = [run_result EXCEPT ![r] = NoRunResult]
  /\ UNCHANGED <<accepted_at, quota_now>>
  /\ UNCHANGED <<bridgeVars, payVars, intelVars, poolVars, icpVars, loopVars>>

\* get_rate_limit_status returns (lines 102-112): the status is only logged,
\* explain_decision is called whatever it says
RateStatusReturns(r) ==
  /\ agent_pc[r] = "status"
  /\ agent_pc' = [agent_pc EXCEPT ![r] = "explain"]
  /\ UNCHANGED <<run_result, accepted_at, quota_now>>
  /\ UNCHANGED <<bridgeVars, payVars, intelVars, poolVars, icpVars, loopVars>>

\* the gate accepts the request of explain_decision: it is counted at the
\* current tick and the model is called
QuotaAccepts(r) ==
  /\ agent_pc[r] = "explain"
  /\ quota_allows
  /\ accepted_at' = [accepted_at EXCEPT ![quota_now] = @ + 1]
  /\ agent_pc' = [agent_pc EXCEPT ![r] = "model"]
  /\ UNCHANGED <<run_result, quota_now>>
  /\ UNCHANGED <<bridgeVars, payVars, intelVars, poolVars, icpVars, loopVars>>

\* the gate rejects the request: explain_decision raises "rate limit
\* exceeded" and run returns the rate_limited answer with the upgrade
\* information (lines 113-121)
QuotaRejects(r) ==
  /\ agent_pc[r] = "explain"
  /\ ~quota_allows
  /\ agent_pc' = [agent_pc EXCEPT ![r] = "idle"]
  /\ run_result' = [run_result EXCEPT
                      ![r] = [status |-> "rate_limited", upgrade_info |-> TRUE]]
  /\ UNCHANGED <<accepted_at, quota_now>>
  /\ UNCHANGED <<bridgeVars, payVars, intelVars, poolVars, icpVars, loopVars>>

\* the model call of an accepted request returns (lines 124-161)
ExplainDecisionReturns(r) ==
  /\ agent_pc[r] = "model"
  /\ agent_pc' = [agent_pc EXCEPT ![r] = "idle"]
  /\ run_result' = [run_result EXCEPT
                      ![r] = [status |-> "success", upgrade_info |-> FALSE]]
  /\ UNCHANGED <<accepted_at, quota_now>>
  /\ UNCHANGED <<bridgeVars, payVars, intelVars, poolVars, icpVars, loopVars>>

\* the model call raises something else: run re-raises it (line 122)
ExplainDecisionRaises(r) ==
  /\ agent_pc[r] = "model"
  /\ agent_pc' = [agent_pc EXCEPT ![r] = "idle"]
  /\ run_result' = [run_result EXCEPT
                      ![r] = [status |-> "raised", upgrade_info |-> FALSE]]
  /\ UNCHANGED <<accepted_at, quota_now>>
  /\ UNCHANGED <<bridgeVars, payVars, intelVars, poolVars, icpVars, loopVars>>

\* time passes
QuotaTick ==
  /\ quota_now < MaxQuotaClock
  /\ quota_now' = quota_now + 1
  /\ UNCHANGED <<agent_pc, run_result, accepted_at>>
  /\ UNCHANGED <<bridgeVars, payVars, intelVars, poolVars, icpVars, loopVars>>

\* ------------------------------------------------------------ reward pool
\* ExplainableRewardsSystem is outside the sources; its pool is known from
\* its test (src/tests/test_masumi_ziggurat_integration.py, lines 374-398)
\* and from the specification, section 4.7.  Amounts are whole coins,
\* quality scores are tenths, multipliers are halves.

\* avg_reward_per_task of the pool of the test: total_budget / num_tasks
avg_reward_per_task == 50

\* the quality scores a distribution is asked with, in tenths
QualityTenths == {6, 7, 9, 10}

\* the tier of a quality score; the test has 0.9 in the gold tier
quality_tier(q) ==
  IF q < 5 THEN "none"
  ELSE IF q < 7 THEN "bronze"
  ELSE IF q < 8 THEN "silver"
  ELSE IF q < 10 THEN "gold"
  ELSE "platinum"

\* the tier's multiplier, in halves: 1.0, 1.5, 2.0, 3.0
tier_multiplier_halves(tier) ==
  CASE tier = "bronze" -> 2
    [] tier = "silver" -> 3
    [] tier = "gold" -> 4
    [] tier = "platinum" -> 6
    [] OTHER -> 0

\* the reward of one distribution: the average reward times the multiplier
pool_reward(q) == (avg_reward_per_task * tier_multiplier_halves(quality_tier(q))) \div 2

\* create_reward_pool(total_budget, num_tasks, min_quality)
create_reward_pool(num_tasks, min_quality) ==
  [total_budget |-> avg_reward_per_task * num_tasks,
   remaining_budget |-> avg_reward_per_task * num_tasks,
   min_quality |-> min_quality,
   distributed |-> <<>>,
   tier_distribution |-> [t \in {"bronze", "silver", "gold", "platinum"} |-> 0]]

NoPoolResult == [kind |-> "none", reward_amount |-> 0]

\* a pool that pays whatever remains in it
pool_can_pay_any(pool, q) == q >= pool.min_quality

\* a distribution is paid when the quality reaches the pool's minimum and
\* the reward fits into what remains
pool_can_pay(pool, q) ==
  q >= pool.min_quality /\ pool_reward(q) <= pool.remaining_budget

PoolInit ==
  /\ reward_pool = create_reward_pool(MaxPoolTasks, 7)
  /\ pool_result = NoPoolResult

\* create_reward_pool is called: a new pool replaces the old one
CreateRewardPool(num_tasks, min_quality) ==
  /\ reward_pool' = create_reward_pool(num_tasks, min_quality)
  /\ pool_result' = NoPoolResult
  /\ UNCHANGED <<bridgeVars, payVars, intelVars, quotaVars, icpVars, loopVars>>

\* distribute_pool_reward(pool, quality_score, agent_id): the reward leaves
\* remaining_budget and the tier is counted, or the distribution is
\* rejected and the pool stays as it is
DistributePoolReward(q) ==
  /\ IF pool_can_pay(reward_pool, q)
       THEN /\ reward_pool' =
                 [reward_pool EXCEPT
                    !.remaining_budget = @ - pool_reward(q),
                    !.distributed = Append(@, pool_reward(q)),
                    !.tier_distribution[quality_tier(q)] = @ + 1]
            /\ pool_result' = [kind |-> "paid", reward_amount |-> pool_reward(q)]
       ELSE /\ reward_pool' = reward_pool
            /\ pool_result' = [kind |-> "rejected", reward_amount |-> 0]
  /\ UNCHANGED <<bridgeVars, payVars, intelVars, quotaVars, icpVars, loopVars>>

\* ------------------------------------------------------------ chain client
\* ICPClient (src/integrations/icp_client.py).  batch_store runs one
\* store_data per item under asyncio.gather; store_data awaits
\* _store_data_on_blockchain once and turns whatever is raised into a failed
\* result.  The satellite behind _store_data_on_blockchain answers or raises
\* one of the errors of its interface.

\* self.max_retries (line 62)
max_retries == 3

Items == 1 .. MaxBatch

\* a payload json.dumps cannot encode
Unserializable == [test |-> "object"]

\* the payloads handed to store_data
Payloads == {[test |-> "connectivity"], [test |-> "other"], Unserializable}

\* Python's None
None == [none |-> TRUE]

TransientErrors == {"NetworkError", "Degraded"}
PermanentErrors == {"AuthError", "StorageFull"}
StoreErrors == TransientErrors \cup PermanentErrors

NoStoreResult == [success |-> FALSE, storage_id |-> <<>>, error |-> "none"]

\* _generate_storage_id (lines 476-481): a digest of the payload
generate_storage_id(data) == <<"storage_", data>>

\* what _query_blockchain_data answers for a storage id (lines 549-561): a
\* fixed record when the id starts with "storage_", None otherwise
query_blockchain_data(storage_id) ==
  IF storage_id # <<>> /\ storage_id[1] = "storage_"
    THEN [storage_id |-> storage_id,
          data |-> [mock |-> "stored_data", value |-> 42]]
    ELSE None

NoRetrieved == [stored |-> None, data |-> None]

\* asyncio.gather that would hand the results over as they complete
gather_as_completed(results, order) == [k \in 1 .. Len(order) |-> results[order[k]]]

\* asyncio.gather (line 412): the results in the order of the awaitables
gather(results, order) == [k \in 1 .. Len(order) |-> results[k]]

IcpInit ==
  /\ data_list = <<>>
  /\ store_pc = [i \in Items |-> "idle"]
  /\ store_result = [i \in Items |-> NoStoreResult]
  /\ store_attempts = [i \in Items |-> 0]
  /\ completion_order = <<>>
  /\ batch_results = <<>>
  /\ request_count = 0
  /\ error_count = 0
  /\ retrieved = NoRetrieved

\* batch_store(data_list) is called (lines 397-412): one store_data per item
\* is scheduled and gather is awaited
BatchStore(list) ==
  /\ data_list = <<>>
  /\ list # <<>>
  /\ request_count + error_count + Len(list) <= MaxIcpCalls
  /\ data_list' = list
  /\ store_pc' = [i \in Items |-> IF i <= Len(list) THEN "scheduled" ELSE "idle"]
  /\ store_result' = [i \in Items |-> NoStoreResult]
  /\ store_attempts' = [i \in Items |-> 0]
  /\ completion_order' = <<>>
  /\ batch_results' = <<>>
  /\ UNCHANGED <<request_count, error_count, retrieved>>
  /\ UNCHANGED <<bridgeVars, payVars, intelVars, quotaVars, poolVars, loopVars>>

\* store_data of item i runs up to its await (lines 333-340): the storage
\* id is generated and _store_data_on_blockchain is called; a payload
\* json.dumps cannot encode ends in the except block at once (lines 354-363)
StoreDataStarts(i) ==
  /\ store_pc[i] = "scheduled"
  /\ IF data_list[i] = Unserializable
       THEN /\ store_pc' = [store_pc EXCEPT ![i] = "returned"]
            /\ store_result' = [store_result EXCEPT
                                  ![i] = [success |-> FALSE, storage_id |-> <<>>,
                                          error |-> "TypeError"]]
            /\ error_count' = error_count + 1
            /\ completion_order' = Append(completion_order, i)
            /\ UNCHANGED store_attempts
       ELSE /\ store_pc' = [store_pc EXCEPT ![i] = "storing"]
            /\ store_attempts' = [store_attempts EXCEPT ![i] = @ + 1]
            /\ UNCHANGED <<store_result, error_count, completion_order>>
  /\ UNCHANGED <<data_list, batch_results, request_count, retrieved>>
  /\ UNCHANGED <<bridgeVars, payVars, intelVars, quotaVars, poolVars, loopVars>>

\* _store_data_on_blockchain returns (lines 342-353): the request is counted
\* and the successful result carries the storage id
StoreOnBlockchainReturns(i) ==
  /\ store_pc[i] = "storing"
  /\ store_pc' = [store_pc EXCEPT ![i] = "returned"]
  /\ store_result' = [store_result EXCEPT
                        ![i] = [success |-> TRUE,
                                storage_id |-> generate_storage_id(data_list[i]),
                                error |-> "none"]]
  /\ request_count' = request_count + 1
  /\ completion_order' = Append(completion_order, i)
  /\ UNCHANGED <<data_list, store_attempts, batch_results, error_count, retrieved>>
  /\ UNCHANGED <<bridgeVars, payVars, intelVars, quotaVars, poolVars, loopVars>>

\* _store_data_on_blockchain raises (lines 354-363): the error is counted and
\* the failed result is returned; nothing is tried again
StoreOnBlockchainRaises(i, error) ==
  /\ store_pc[i] = "storing"
  /\ store_pc' = [store_pc EXCEPT ![i] = "returned"]
  /\ store_result' = [store_result EXCEPT
                        ![i] = [success |-> FALSE, storage_id |-> <<>>,
                                error |-> error]]
  /\ error_count' = error_count + 1
  /\ completion_order' = Append(completion_order, i)
  /\ UNCHANGED <<data_list, store_attempts, batch_results, request_count, retrieved>>
  /\ UNCHANGED <<bridgeVars, payVars, intelVars, quotaVars, poolVars, loopVars>>

\* gather returns and batch_store hands the results over (lines 412-431)
BatchStoreReturns ==
  /\ data_list # <<>>
  /\ batch_results = <<>>
  /\ \A i \in 1 .. Len(data_list) : store_pc[i] = "returned"
  /\ batch_results' = gather(store_result, completion_order)
  /\ UNCHANGED <<data_list, store_pc, store_result, store_attempts, completion_order,
                 request_count, error_count, retrieved>>
  /\ UNCHANGED <<bridgeVars, payVars, intelVars, quotaVars, poolVars, loopVars>>

\* retrieve_data on the storage_id of a successful result (lines 377-390;
\* test_icp_connectivity, lines 584-588): the answer of
\* _query_blockchain_data is returned as it is and the request is counted
RetrieveData(k) ==
  /\ k \in DOMAIN batch_results
  /\ batch_results[k].success
  /\ request_count + error_count < MaxIcpCalls
  /\ retrieved' = [stored |-> data_list[k],
                   data |-> query_blockchain_data(batch_results[k].storage_id)]
  /\ request_count' = request_count + 1
  /\ UNCHANGED <<data_list, store_pc, store_result, store_attempts, completion_order,
                 batch_results, error_count>>
  /\ UNCHANGED <<bridgeVars, payVars, intelVars, quotaVars, poolVars, loopVars>>

\* the caller is done with the results of the batch
BatchDone ==
  /\ batch_results # <<>>
  /\ data_list' = <<>>
  /\ store_pc' = [i \in Items |-> "idle"]
  /\ store_result' = [i \in Items |-> NoStoreResult]
  /\ store_attempts' = [i \in Items |-> 0]
  /\ completion_order' = <<>>
  /\ batch_results' = <<>>
  /\ retrieved' = NoRetrieved
  /\ UNCHANGED <<request_count, error_count>>
  /\ UNCHANGED <<bridgeVars, payVars, intelVars, quotaVars, poolVars, loopVars>>

\* get_performance_stats (lines 438-466): the counters, and the success rate
\* as the fraction (request_count - error_count) / request_count, 1.0 while
\* nothing was counted
get_performance_stats ==
  [total_requests |-> request_count,
   total_errors |-> error_count,
   success_rate_numerator |->
      IF request_count > 0 THEN request_count - error_count ELSE 1,
   success_rate_denominator |-> IF request_count > 0 THEN request_count ELSE 1]

\* ------------------------------------------------------- settlement loop
\* UnifiedPaymentService.start, stop and _auto_settlement_loop
\* (src/integrations/unified_payment_service.py, lines 110-123 and 515-525).
\* start has no await; stop awaits the task it cancelled; the loop runs
\* between its sleeps.

LoopTasks == 1 .. MaxLoopTasks

\* the loops that exist and have not been cancelled
LiveLoops == {t \in LoopTasks : loop_state[t] = "sleeping"}

\* the task asyncio.create_task creates next
NewTask == CHOOSE t \in LoopTasks :
             /\ loop_state[t] = "new"
             /\ \A u \in LoopTasks : loop_state[u] = "new" => t <= u

LoopInit ==
  /\ settlement_task = 0
  /\ loop_state = [t \in LoopTasks |-> "new"]
  /\ stop_pc = [c \in Callers |-> "idle"]
  /\ stop_awaited = [c \in Callers |-> 0]
  /\ stopped_clean = FALSE
  /\ settle_runs = 0

\* start (lines 110-113): a loop is created when self._settlement_task is
\* None, else nothing happens
ServiceStart(c) ==
  /\ stop_pc[c] = "idle"
  /\ IF settlement_task = 0
       THEN /\ \E t \in LoopTasks : loop_state[t] = "new"
            /\ settlement_task' = NewTask
            /\ loop_state' = [loop_state EXCEPT ![NewTask] = "sleeping"]
       ELSE UNCHANGED <<settlement_task, loop_state>>
  /\ stopped_clean' = FALSE
  /\ UNCHANGED <<stop_pc, stop_awaited, settle_runs>>
  /\ UNCHANGED <<bridgeVars, payVars, intelVars, quotaVars, poolVars, icpVars>>

\* stop up to its await (lines 115-120): nothing to do when there is no
\* task; else the task is cancelled and awaited.  A task that has ended
\* already is awaited without suspending (lines 120-123).
ServiceStop(c) ==
  /\ stop_pc[c] = "idle"
  /\ IF settlement_task = 0
       THEN /\ stopped_clean' = TRUE
            /\ UNCHANGED <<settlement_task, loop_state, stop_pc, stop_awaited>>
       ELSE IF loop_state[settlement_task] = "done"
         THEN /\ settlement_task' = 0
              /\ stopped_clean' = TRUE
              /\ UNCHANGED <<loop_state, stop_pc, stop_awaited>>
         ELSE /\ loop_state' = [loop_state EXCEPT ![settlement_task] = "cancelled"]
              /\ stop_pc' = [stop_pc EXCEPT ![c] = "awaiting"]
              /\ stop_awaited' = [stop_awaited EXCEPT ![c] = settlement_task]
              /\ UNCHANGED <<settlement_task, stopped_clean>>
  /\ UNCHANGED settle_runs
  /\ UNCHANGED <<bridgeVars, payVars, intelVars, quotaVars, poolVars, icpVars>>

\* the cancelled loop is scheduled: CancelledError is raised at its await and
\* the task ends (lines 521-522)
LoopEnds(t) ==
  /\ loop_state[t] = "cancelled"
  /\ loop_state' = [loop_state EXCEPT ![t] = "done"]
  /\ UNCHANGED <<settlement_task, stop_pc, stop_awaited, stopped_clean, settle_runs>>
  /\ UNCHANGED <<bridgeVars, payVars, intelVars, quotaVars, poolVars, icpVars>>

\* the awaited task has ended and stop resumes (lines 121-123):
\* self._settlement_task becomes None, whatever it holds by now
StopCompletes(c) ==
  /\ stop_pc[c] = "awaiting"
  /\ loop_state[stop_awaited[c]] = "done"
  /\ settlement_task' = 0
  /\ stop_pc' = [stop_pc EXCEPT ![c] = "idle"]
  /\ stop_awaited' = [stop_awaited EXCEPT ![c] = 0]
  /\ stopped_clean' = TRUE
  /\ UNCHANGED <<loop_state, settle_runs>>
  /\ UNCHANGED <<bridgeVars, payVars, intelVars, quotaVars, poolVars, icpVars>>

\* a loop wakes from its sleep and runs process_batch_settlement
\* (lines 519-520), which returns at once on an empty queue (lines 433-438)
LoopIteration(t, ts) ==
  /\ loop_state[t] = "sleeping"
  /\ settle_runs < MaxSettleRuns
  /\ settle_runs' = settle_runs + 1
  /\ IF pending_settlements = <<>>
       THEN UNCHANGED payVars
       ELSE BatchSettlement(ts)
  /\ UNCHANGED <<settlement_task, loop_state, stop_pc, stop_awaited, stopped_clean>>
  /\ UNCHANGED <<bridgeVars, intelVars, quotaVars, poolVars, icpVars>>

ServiceInit == QuotaInit /\ PoolInit /\ IcpInit /\ LoopInit

\* ----------------------------------------------------------- specifications

\* the rewards a caller may hand to distribute_task_reward on its own
RewardInputs ==
  [task_id : Tasks, agent_id : {agent_id},
   transaction_hash : BOOLEAN]

\* the cycle counts, amounts and currency pairs callers pay with
CycleInputs == {1500000}
PaymentMethods == {"ICP"}
TransferInputs == {<<"ICP", "MASUMI">>, <<"MASUMI", "ICP">>}

Init == BridgeInit /\ PayInit /\ IntelInit /\ ServiceInit

\* the bridge together with the payout of the rewards it obtained
Next ==
  \/ \E c \in Callers, t \in Tasks : Invoke(c, t)
  \/ \E c \in Callers, resp \in ClaimResponses : ClaimTaskReturns(c, resp)
  \/ \E c \in Callers, e \in Explanations : ExplainReturns(c, e)
  \/ \E c \in Callers : ExplainRaises(c)
  \/ \E c \in Callers, accepted \in BOOLEAN : SubmitReturns(c, accepted)
  \/ \E c \in Callers : SubmitRaises(c)
  \/ \E c \in Callers, has_tx \in BOOLEAN : ClaimRewardReturns(c, has_tx)
  \/ \E c \in Callers : ClaimRewardRaises(c)
  \/ \E c \in Callers, answer \in {"accepted", "rejected", "raised"} :
        ReportCompletes(c, answer)
  \/ \E i \in DOMAIN reward_records, ts \in 0 .. MaxClock :
        Len(payment_objects) < MaxPayouts /\ DistributeTaskReward(reward_records[i], ts)
  \/ \E ts \in 0 .. MaxClock : ProcessBatchSettlement(ts)

\* the payment service on its own, under every caller
PayNext ==
  \/ \E u \in Users, cy \in CycleInputs, m \in PaymentMethods, ts \in 0 .. MaxClock :
        ProcessAiServicePayment(u, cy, m, ts)
  \/ \E o \in awaiting_transaction, success \in BOOLEAN : TransactionReturns(o, success)
  \/ \E o \in awaiting_transaction : TransactionRaises(o)
  \/ \E r \in RewardInputs, ts \in 0 .. MaxClock : DistributeTaskReward(r, ts)
  \/ \E x \in TransferInputs, u \in Users, ts1 \in 0 .. MaxClock, ts2 \in 0 .. MaxClock :
        ProcessCrossChainTransfer(x[1], x[2], AmountScale, u, ts1, ts2)
  \/ \E ts \in 0 .. MaxClock : ProcessBatchSettlement(ts)

SpecPay == Init /\ [][PayNext]_vars

Spec == Init /\ [][Next]_vars

\* the explanation client, the custom explanation and the two verifications
XaiNext ==
  \/ XaiExplain
  \/ \E data \in Responses : XaiResponse(data)
  \/ XaiRequestRaises
  \/ \E verify_on_chain \in BOOLEAN, confidence \in Confidences :
        SubmitCustomExplanation(verify_on_chain, confidence)
  \/ CrossChainVerify
  \/ \E answer \in {"verified", "unverified", "raised"} : VerifyProofAnswers(answer)
  \/ \E secondaries \in SUBSET SecondaryChains, primary_ok \in BOOLEAN,
        verified_secondaries \in SUBSET SecondaryChains :
        VerifyAiExplanation(secondaries, primary_ok, verified_secondaries)

SpecXai == Init /\ [][XaiNext]_vars

\* the engine under single and batched requests
EngineNext ==
  \/ \E r \in Requests, key \in CacheKeys : ExplainPrediction(r, key)
  \/ \E r1, r2 \in Requests, key1, key2 \in CacheKeys :
        BatchExplain(r1, key1, r2, key2)
  \/ \E r \in Requests : InferenceReturns(r)
  \/ \E r \in Requests : GenerateExplanationReturns(r)
  \/ \E r \in Requests : StoreOnIcpReturns(r)

SpecEngine == Init /\ [][EngineNext]_vars

\* the agent's runs against the quota gate
QuotaNext ==
  \/ \E r \in Runs : AgentRun(r)
  \/ \E r \in Runs : RateStatusReturns(r)
  \/ \E r \in Runs : QuotaAccepts(r)
  \/ \E r \in Runs : QuotaRejects(r)
  \/ \E r \in Runs : ExplainDecisionReturns(r)
  \/ \E r \in Runs : ExplainDecisionRaises(r)
  \/ QuotaTick

SpecQuota == Init /\ [][QuotaNext]_vars

\* reward pools and their distributions
PoolNext ==
  \/ \E n \in 1 .. MaxPoolTasks, m \in {5, 7} : CreateRewardPool(n, m)
  \/ \E q \in QualityTenths : DistributePoolReward(q)

SpecPool == Init /\ [][PoolNext]_vars

\* the batches a caller stores
BatchInputs == UNION {[1 .. n -> Payloads] : n \in 1 .. MaxBatch}

\* the chain client under batches of stores and retrievals
IcpNext ==
  \/ \E list \in BatchInputs : BatchStore(list)
  \/ \E i \in Items : StoreDataStarts(i)
  \/ \E i \in Items : StoreOnBlockchainReturns(i)
  \/ \E i \in Items, error \in StoreErrors : StoreOnBlockchainRaises(i, error)
  \/ BatchStoreReturns
  \/ \E k \in Items : RetrieveData(k)
  \/ BatchDone

SpecIcp == Init /\ [][IcpNext]_vars

\* start and stop of the payment service under every interleaving
LoopNext ==
  \/ \E c \in Callers : ServiceStart(c)
  \/ \E c \in Callers : ServiceStop(c)
  \/ \E t \in LoopTasks : LoopEnds(t)
  \/ \E c \in Callers : StopCompletes(c)
  \/ \E t \in LoopTasks, ts \in 0 .. MaxClock : LoopIteration(t, ts)

SpecLoop == Init /\ [][LoopNext]_vars


\* ------------------------------------------------------------------ claims

\* the Reward Records claim_reward has returned for task t
RewardRecordsOf(t) ==
  Cardinality({i \in DOMAIN reward_records : reward_records[i].task_id = t})

\* the TaskReward payments the ledger holds for task t
TaskRewardPaymentsOf(t) ==
  Cardinality({id \in DOMAIN payments :
                 /\ payment_objects[payments[id]].payment_type = "task_reward"
                 /\ payment_objects[payments[id]].task_id = t})

\* C1: over invocations of process_explainable_task that follow one another
\* (never two of the task in flight together), claim_reward is called at
\* most once for the task
C1_RewardClaimedAtMostOnce ==
  \A t \in Tasks : ~overlapped[t] => claim_reward_calls[t] <= 1

\* C2: when the task is processed by exactly two invocations that were in
\* flight together, no more than one model call and no more than one
\* claim_reward call are made for it
C2_ConcurrentCallsCoalesce ==
  \A t \in Tasks :
    (overlapped[t] /\ invocations[t] = 2) =>
      (explain_calls[t] <= 1 /\ claim_reward_calls[t] <= 1)

\* C3: a task in state Rewarded has exactly one Reward Record and exactly one
\* TaskReward payment in the ledger
C3_RewardedHasOneRecordAndOnePayment ==
  \A t \in Tasks :
    task_status[t] = "Rewarded" =>
      (RewardRecordsOf(t) = 1 /\ TaskRewardPaymentsOf(t) = 1)

\* C4: once a task is Rewarded or Failed, no step changes its state
C4_TerminalStatesAreFinal ==
  [][\A t \in Tasks :
       task_status[t] \in {"Rewarded", "Failed"} =>
         task_status'[t] = task_status[t]]_vars

\* C5: no error completion is sent for a Submitted task on account of a
\* failed claim_reward call
C5_FailedRewardClaimDoesNotFailTask ==
  \A c \in Callers :
    ~(/\ pc[c] = "report"
      /\ failed_step[c] = "claim_reward"
      /\ task_status[task_id[c]] = "Submitted")

\* C6: no completion is sent for a task whose explain step failed: the
\* invocation does not enter the reporting of a failure
C6_ExplainFailureLeavesTaskClaimed ==
  \A c \in Callers : ~(pc[c] = "report" /\ failed_step[c] = "explain")

\* the step of lines 295-304 a caller takes out of the await of its
\* submission, when the submission did not raise
C7_StepFromSubmit(c) ==
  (pc[c] = "submit" /\ pc'[c] \notin {"submit", "report"}) =>
    /\ (pc'[c] = "claim_reward") <=> (quality_score[c] >= min_quality_threshold)
    /\ (pc'[c] = "claim_reward") =>
          claim_reward_calls'[task_id[c]] = claim_reward_calls[task_id[c]] + 1
    /\ (quality_score[c] < min_quality_threshold) =>
          /\ pc'[c] = "idle"
          /\ submit_calls[c] = 1
          /\ outcome'.kind = "result" /\ ~outcome'.reward
          /\ claim_reward_calls' = claim_reward_calls
          /\ reward_records' = reward_records
          /\ payments' = payments /\ payment_objects' = payment_objects

\* claim_reward is awaited only with a score at or above the threshold, and a
\* result carries a reward exactly when its score is at or above it
C7_ResultsAndClaims ==
  /\ \A c \in Callers :
       pc[c] = "claim_reward" => quality_score[c] >= min_quality_threshold
  /\ outcome.kind = "result" =>
       (outcome.reward <=> outcome.quality_score >= min_quality_threshold)

\* C7: where process_explainable_task gets past the submission of its
\* completion, it goes on to claim_reward exactly when the score is at least
\* min_quality_threshold; below the threshold the invocation returns a result
\* without reward, having submitted its completion, and the payment ledger is
\* left as it was
C7_RewardClaimedIffThresholdMet ==
  /\ []C7_ResultsAndClaims
  /\ [][\A c \in Callers : C7_StepFromSubmit(c)]_vars

\* C7's case: a completion was accepted for a score below the threshold and
\* the invocation returned without reward, no claim_reward call made
C7_Witness ==
  /\ outcome.kind = "result" /\ ~outcome.reward
  /\ outcome.quality_score < min_quality_threshold
  /\ task_status[outcome.task_id] = "Submitted"
  /\ claim_reward_calls[outcome.task_id] = 0
  /\ TaskRewardPaymentsOf(outcome.task_id) = 0

\* C8: a claim rejected because this agent already holds the task does not
\* end the invocation with an error
C8_OwnClaimContinues ==
  (outcome.kind = "raised" /\ outcome.error = "RuntimeError") =>
    outcome.claimed_by # "self"

\* C9: the task is failed on account of submit_task_completion only after
\* the submission has been tried more than once
C9_SubmitRetriedBeforeFailing ==
  \A c \in Callers :
    (pc[c] = "report" /\ failed_step[c] = "submit") => submit_calls[c] > 1

\* C10: a payment whose status is completed (Settled) or failed keeps that
\* status in every step of the payment service
C10_SettledAndFailedAreFinal ==
  [][\A o \in DOMAIN payment_objects :
       payment_objects[o].status \in {"completed", "failed"} =>
         payment_objects'[o].status = payment_objects[o].status]_vars

\* C10's case: a failed and a completed payment are in the ledger and a batch
\* settlement has since settled another payment
C10_Witness ==
  \E o1, o2, o3 \in DOMAIN payment_objects :
    /\ payment_objects[o1].status = "failed"
    /\ payment_objects[o2].status = "completed"
    /\ payment_objects[o2].transaction_hash = "tx"
    /\ o3 > o1 /\ o3 > o2
    /\ payment_objects[o3].transaction_hash = "batch"

\* C11: the ledger holds at most one TaskReward payment for a task, however
\* often the payout of the task's reward is recorded
C11_RecordingIsIdempotent ==
  \A t \in Tasks : TaskRewardPaymentsOf(t) <= 1

\* C12: no step removes a payment from the ledger or puts another payment
\* under its payment_id
C12_LedgerIsAppendOnly ==
  [][\A id \in DOMAIN payments :
       id \in DOMAIN payments' /\ payments'[id] = payments[id]]_vars

\* C13: a step that records a cross-chain transfer creates exactly two
\* payments: a debit of the amount in the source currency sent by the user to
\* the escrow, and a credit of amount x rate_table[from][to] in the
\* destination currency received by the same user; both are pending, both are
\* in the ledger under their ids, and both are in the settlement queue
C13_TransferAppendsDebitAndCredit ==
  [][(/\ Len(payment_objects') > Len(payment_objects)
      /\ payment_objects'[Len(payment_objects')].payment_type = "cross_chain")
     =>
     LET o == Len(payment_objects) + 1
         debit == payment_objects'[o]
         credit == payment_objects'[o + 1]
         queued(x) == Cardinality({i \in DOMAIN pending_settlements' :
                                     pending_settlements'[i] = x})
     IN  /\ Len(payment_objects') = Len(payment_objects) + 2
         /\ debit.payment_type = "cross_chain"
         /\ debit.amount = AmountScale  \* the amount asked for: one coin
         /\ debit.sender_id \in Users /\ debit.recipient_id = "bridge_escrow"
         /\ credit.recipient_id = debit.sender_id
         /\ credit.sender_id = "bridge_escrow"
         /\ credit.amount * 100 =
               debit.amount * exchange_rates(debit.currency, credit.currency)
         /\ debit.status = "pending" /\ credit.status = "pending"
         /\ debit.payment_id \in DOMAIN payments'
         /\ payments'[debit.payment_id] = o
         /\ credit.payment_id \in DOMAIN payments'
         /\ payments'[credit.payment_id] = o + 1
         /\ queued(o) = 1 /\ queued(o + 1) = 1
         /\ Len(pending_settlements') = Len(pending_settlements) + 2]_vars

\* C13's case: the transfer of the test (1.0 ICP into MASUMI at rate 50.0)
\* has returned and its two payments wait in the queue
C13_Witness ==
  \E i, j \in DOMAIN pending_settlements :
    LET debit == payment_objects[pending_settlements[i]]
        credit == payment_objects[pending_settlements[j]]
    IN  /\ j = i + 1
        /\ debit.payment_type = "cross_chain" /\ debit.currency = "ICP"
        /\ debit.amount = AmountScale /\ debit.status = "pending"
        /\ credit.currency = "MASUMI" /\ credit.amount = 50 * AmountScale
        /\ credit.status = "pending"
        /\ credit.recipient_id = debit.sender_id

\* the payments a step settles: completed after it, not completed (or not
\* there) before it
C14_SettledInStep ==
  {o \in DOMAIN payment_objects' :
     /\ payment_objects'[o].status = "completed"
     /\ (o \in DOMAIN payment_objects => payment_objects[o].status # "completed")}

\* C14: every step changes each balance by exactly the payments it settles
\* (received minus sent); payments that are pending or failed, such as those
\* of a transfer before its settlement, change no balance
C14_BalanceIsSettledCreditsMinusDebits ==
  [][\A u \in Users, currency \in Currencies :
       BalanceOf(payments', payment_objects', u, currency) =
         BalanceOf(payments, payment_objects, u, currency)
           + SignedSum(C14_SettledInStep, payment_objects', u, currency)]_vars

\* C15: the amount of an AI-usage payment is the number of started millions
\* of cycles times the rate of the payment method
C15_AmountIsCeilOfMillions ==
  \A o \in DOMAIN payment_objects :
    payment_objects[o].payment_type = "ai_service" =>
      payment_objects[o].amount =
        ((payment_objects[o].cycles_used + 999999) \div 1000000)
          * cost_per_million_cycles(payment_objects[o].currency)
          * (AmountScale \div 100)

\* C16: an explanation is marked blockchain_verified exactly when a proof of
\* it was anchored on the primary chain
C16_VerifiedIffPrimaryAnchored ==
  produced.source # "none" => (produced.blockchain_verified <=> produced.anchored)

\* C17: an explanation marked blockchain_verified carries a proof hash and a
\* verification chain
C17_VerifiedHasProofHashAndChain ==
  produced.blockchain_verified =>
    (produced.proof_hash /\ produced.verification_chain)

\* C18: in every verification result total_count is the number of chains
\* asked for, an anchored primary chain is among the chains counted as
\* verified, and consensus_achieved is true exactly when the chains reported
\* as verified are at least the threshold's share of the chains asked for
C18_ConsensusIffThresholdReached ==
  verification_result.requested # {} =>
    /\ verification_result.total_count =
          Cardinality(verification_result.requested)
    /\ verification_result.verified_count =
          Cardinality(verification_result.verified)
    /\ verification_result.reason = "none" =>
          primary_chain \in verification_result.verified
    /\ verification_result.consensus_achieved <=>
          (Cardinality(verification_result.verified) * 100
             >= consensus_threshold * Cardinality(verification_result.requested))

\* C18's case: of three chains asked for, the primary and one secondary are
\* verified and one secondary failed: 2/3 reaches 0.66
C18_Witness ==
  /\ Cardinality(verification_result.requested) = 3
  /\ verification_result.verified_count = 2
  /\ Cardinality(verification_result.errors) = 1
  /\ verification_result.consensus_achieved

\* C19: when _cross_chain_verify has returned, every chain it was to verify
\* has an entry in the result
C19_EveryChainIsReported ==
  ccv_returned =>
    \A i \in DOMAIN chains : chains[i] \in verification_proofs

\* C20: for no cache key are two model calls in flight together
C20_OneModelCallInFlightPerKey ==
  \A key \in CacheKeys :
    Cardinality({r \in Requests :
                   engine_pc[r] = "inference" /\ engine_key[r] = key}) <= 1

\* every window of WindowTicks ticks holds at most the hourly limit of
\* accepted requests
C21_EveryWindowWithinLimit ==
  \A t \in 0 .. MaxQuotaClock : accepted_in_window(t) <= rate_limit_per_hour

\* what a decision of the gate on the request of run r does
C21_DecisionStep(r) ==
  /\ (agent_pc[r] = "explain" /\ agent_pc'[r] = "model") =>
        /\ accepted_in_window(quota_now) < rate_limit_per_hour
        /\ accepted_in_window(quota_now)' = accepted_in_window(quota_now) + 1
  /\ (agent_pc[r] = "explain" /\ agent_pc'[r] # "explain" /\ agent_pc'[r] # "model") =>
        /\ accepted_in_window(quota_now) = rate_limit_per_hour
        /\ run_result'[r] = [status |-> "rate_limited", upgrade_info |-> TRUE]
        /\ accepted_at' = accepted_at
        /\ \A o \in Runs \ {r} : agent_pc'[o] = agent_pc[o] /\ run_result'[o] = run_result[o]

RECURSIVE SumSeq(_)
\* the sum of a sequence of amounts
SumSeq(s) == IF s = <<>> THEN 0 ELSE s[1] + SumSeq(Tail(s))

\* what a distribution does to the pool
C22_DistributionStep ==
  (pool_result'.kind = "rejected") => reward_pool' = reward_pool

\* the pool's books
C22_BudgetIsBalanced ==
  /\ reward_pool.remaining_budget =
        reward_pool.total_budget - SumSeq(reward_pool.distributed)
  /\ reward_pool.remaining_budget >= 0

\* C22: a reward pool's remaining_budget is its initial budget less the
\* rewards distributed from it and is never negative; a distribution that
\* would exceed what remains is rejected and leaves the pool as it was
C22_PoolBudgetNeverOverdrawn ==
  /\ []C22_BudgetIsBalanced
  /\ [][C22_DistributionStep]_vars

\* C22's case: rewards were paid from the pool and a distribution larger
\* than the rest was rejected
C22_Witness ==
  /\ reward_pool.distributed # <<>>
  /\ pool_result.kind = "rejected"
  /\ reward_pool.remaining_budget > 0
  /\ reward_pool.remaining_budget < reward_pool.total_budget

\* C23: batch_store returns a list as long as its input whose k-th result
\* reports on the k-th item: a successful result carries the storage id of
\* that item, an item that cannot be stored has a failed result, and the
\* failure of one item fails no other item's result
C23_BatchResultsFollowInput ==
  batch_results # <<>> =>
    /\ Len(batch_results) = Len(data_list)
    /\ \A k \in DOMAIN batch_results :
         /\ batch_results[k].success =>
               batch_results[k].storage_id = generate_storage_id(data_list[k])
         /\ data_list[k] = Unserializable => ~batch_results[k].success
         /\ batch_results[k].success <=> store_result[k].success

\* C23's case: a batch of two whose second item ended first; one item
\* failed and the other was stored
C23_Witness ==
  /\ Len(batch_results) = 2
  /\ completion_order = <<2, 1>>
  /\ ~batch_results[2].success
  /\ batch_results[1].success

\* C24: what retrieve_data returns for the storage_id of a successful
\* store_data is the payload that was stored
C24_FetchReturnsStoredPayload ==
  retrieved.stored # None => retrieved.data = retrieved.stored

\* C25: a store that failed with a transient error (NetworkError, Degraded)
\* was attempted max_retries times before the failure surfaced; one that
\* failed with AuthError or StorageFull was attempted exactly once
C25_TransientErrorsAreRetried ==
  \A i \in Items :
    store_pc[i] = "returned" =>
      /\ store_result[i].error \in TransientErrors => store_attempts[i] >= max_retries
      /\ store_result[i].error \in PermanentErrors => store_attempts[i] = 1

\* C26: every explanation returned has a confidence within [0, 1]
C26_ConfidenceWithinUnitInterval ==
  produced.source # "none" =>
    (produced.confidence >= 0 /\ produced.confidence <= ConfidenceOne)

\* C27: claim_reward is called only after submit_task_completion returned
\* an accepted completion: where an invocation goes from the submission to
\* claim_reward, the submission was accepted
C27_RewardClaimedOnlyAfterAcceptedSubmission ==
  [][\A c \in Callers :
       (pc[c] = "submit" /\ pc'[c] = "claim_reward") =>
          task_status'[task_id[c]] = "Submitted"]_vars

\* C28: every payment recorded as pending waits in the settlement queue,
\* whatever enable_cross_chain is, and the queue holds pending payments
\* only, so that repeated batch settlements settle every pending payment
C28_PendingPaymentsAreQueued ==
  /\ \A id \in DOMAIN payments :
       payment_objects[payments[id]].status = "pending" =>
         \E k \in DOMAIN pending_settlements : pending_settlements[k] = payments[id]
  /\ \A k \in DOMAIN pending_settlements :
       payment_objects[pending_settlements[k]].status = "pending"

\* C29: in every snapshot of the performance statistics total_errors is at
\* most total_requests and success_rate lies within [0, 1]
C29_StatsAreConsistent ==
  /\ get_performance_stats.total_errors <= get_performance_stats.total_requests
  /\ get_performance_stats.success_rate_numerator >= 0
  /\ get_performance_stats.success_rate_numerator
        <= get_performance_stats.success_rate_denominator

\* at most one settlement loop exists
C30_AtMostOneLoop == Cardinality(LiveLoops) <= 1

\* C30: under every interleaving of start and stop at most one automatic
\* settlement loop exists at a time, and once a stop has completed with no
\* start after it no automatic settlement runs
C30_OneLoopAndNoneAfterStop ==
  /\ []C30_AtMostOneLoop
  /\ [][settle_runs' # settle_runs => ~stopped_clean]_vars

=============================================================================
